---- MODULE Spec2Model ----
(***************************************************************************)
(* Import-graph analyzer (src/main.py): module registry, import resolver,  *)
(* importer index, metrics table and the hot / dead / cold views.          *)
(*                                                                         *)
(* Representation of strings.  A dotted string is the sequence of its      *)
(* "."-separated pieces ("pkg.a" is <<"pkg", "a">>, "a.py" is              *)
(* <<"a", "py">>, the empty string is <<"">>), so s + "." + t is s \o t    *)
(* and s.split(".") is the list of the one-piece strings of s.  A path is  *)
(* the sequence of its parts, each part a dotted string.                   *)
(***************************************************************************)
EXTENDS Integers, Sequences, FiniteSets, TLC

VARIABLES
    tree,       \* the *.py files under the root (paths relative to the root)
    pc,         \* position of the run
    known,      \* known_modules: the registry, an insertion-ordered dict
    files,      \* analyze: the list collect_python_files returns at line 143
    idx,        \* analyze: index of the next file of the loop at line 143
    importers,  \* analyze: importers, module name -> set of rel_path
    parsed,     \* per analysed file: did it parse, and what parse_file_imports returned
    results,    \* analyze: the metrics table
    view,       \* the command run on the table: its arguments and the rows it hands to the formatter
    cur,        \* parse_file_imports: the file being parsed
    node,       \* parse_file_imports: the import statement visited last
    prev,       \* parse_file_imports: imported before that statement
    imported    \* parse_file_imports: imported after it

vars == <<tree, pc, known, files, idx, importers, parsed, results, view, cur, node, prev, imported>>

----------------------------------------------------------------------------
(* Bounds of the model *)

MaxFiles == 3
MaxStmts == 2
MaxNames == 2
MaxLevel == 2
MaxTop == 2

----------------------------------------------------------------------------
(* Strings, paths and their orders *)

None == <<>>
EmptyStr == <<"">>
Star == <<"*">>
InitPy == <<"__init__", "py">>

\* the pieces of the file names of the model, in code-point order
AtomOrder == <<"__init__", "a", "b", "deep", "mod", "pkg", "py", "sub", "top">>

AtomRank(x) == CHOOSE i \in 1..Len(AtomOrder) : AtomOrder[i] = x

\* "/" > "." and both sort before every character of a piece
TokRank(t) == IF t = "." THEN -1 ELSE IF t = "/" THEN 0 ELSE AtomRank(t)

Front(s) == SubSeq(s, 1, Len(s) - 1)

\* s.split(".")
Split(s) == [i \in 1..Len(s) |-> <<s[i]>>]

RECURSIVE Flatten(_)
Flatten(parts) ==
    IF parts = <<>> THEN <<>> ELSE Head(parts) \o Flatten(Tail(parts))

\* ".".join(parts)
Join(parts) == IF parts = <<>> THEN EmptyStr ELSE Flatten(parts)

\* str < str on dotted strings
RECURSIVE StrLess(_, _)
StrLess(s, t) ==
    IF s = <<>> THEN t # <<>>
    ELSE IF t = <<>> THEN FALSE
    ELSE IF s[1] = t[1] THEN StrLess(Tail(s), Tail(t))
    ELSE AtomRank(s[1]) < AtomRank(t[1])

\* Path < Path: the tuples of parts compared
RECURSIVE PathLess(_, _)
PathLess(f, g) ==
    IF f = <<>> THEN g # <<>>
    ELSE IF g = <<>> THEN FALSE
    ELSE IF f[1] = g[1] THEN PathLess(Tail(f), Tail(g))
    ELSE StrLess(f[1], g[1])

\* str(path): the characters of the path, piece by piece
RECURSIVE Dotted(_)
Dotted(s) ==
    IF Len(s) = 1 THEN <<s[1]>> ELSE <<s[1], ".">> \o Dotted(Tail(s))

RECURSIVE RelPathStr(_)
RelPathStr(f) ==
    IF Len(f) = 1 THEN Dotted(f[1]) ELSE Dotted(f[1]) \o <<"/">> \o RelPathStr(Tail(f))

RECURSIVE TokLess(_, _)
TokLess(s, t) ==
    IF s = <<>> THEN t # <<>>
    ELSE IF t = <<>> THEN FALSE
    ELSE IF s[1] = t[1] THEN TokLess(Tail(s), Tail(t))
    ELSE TokRank(s[1]) < TokRank(t[1])

\* str < str on two rel_path strings
RelPathLess(f, g) == TokLess(RelPathStr(f), RelPathStr(g))

\* sorted(root.rglob("*.py"))
RECURSIVE SortPaths(_)
SortPaths(S) ==
    IF S = {} THEN <<>>
    ELSE LET m == CHOOSE x \in S : \A y \in S \ {x} : PathLess(x, y)
         IN  <<m>> \o SortPaths(S \ {m})

\* sorted(importers[mod])
RECURSIVE SortRelPaths(_)
SortRelPaths(S) ==
    IF S = {} THEN <<>>
    ELSE LET m == CHOOSE x \in S : \A y \in S \ {x} : RelPathLess(x, y)
         IN  <<m>> \o SortRelPaths(S \ {m})

Range(s) == {s[i] : i \in 1..Len(s)}

----------------------------------------------------------------------------
(* The registry *)

collect_python_files(root) == SortPaths(root)

file_to_module_name(filepath) ==
    LET parts == filepath
        last  == parts[Len(parts)]
    IN  IF last = InitPy
        THEN IF Front(parts) = <<>> THEN EmptyStr ELSE Join(Front(parts))
        ELSE Join(Front(parts) \o <<Front(last)>>)

compute_depth(filepath) == Len(filepath) - 1

\* a dict: a sequence of <<key, value>> entries in insertion order
Keys(d) == {d[i][1] : i \in 1..Len(d)}

Get(d, k) == d[CHOOSE i \in 1..Len(d) : d[i][1] = k][2]

\* d[k] = v
Put(d, k, v) ==
    IF k \in Keys(d)
    THEN [i \in 1..Len(d) |-> IF d[i][1] = k THEN <<k, v>> ELSE d[i]]
    ELSE Append(d, <<k, v>>)

RECURSIVE RegistryFrom(_, _)
RegistryFrom(paths, registry) ==
    IF paths = <<>> THEN registry
    ELSE LET name == file_to_module_name(Head(paths))
         IN  RegistryFrom(Tail(paths),
                          IF name # EmptyStr THEN Put(registry, name, Head(paths))
                          ELSE registry)

build_module_registry(root) == RegistryFrom(collect_python_files(root), <<>>)

----------------------------------------------------------------------------
(* The import resolver *)

\* an ast.Import or ast.ImportFrom node; names holds the alias names
ImportNode(names) ==
    [type |-> "Import", level |-> 0, module |-> None, names |-> names]

ImportFromNode(level, module, names) ==
    [type |-> "ImportFrom", level |-> level, module |-> module, names |-> names]

NoNode == [type |-> "none", level |-> 0, module |-> None, names |-> <<>>]

\* a search that runs from the first piece up and stops at the first known candidate
BestPrefixShortestFirst(name_parts, i, known_modules) ==
    LET hits == {j \in 1..i : Join(SubSeq(name_parts, 1, j)) \in Keys(known_modules)}
    IN  IF hits = {} THEN None
        ELSE Join(SubSeq(name_parts, 1, CHOOSE j \in hits : \A k \in hits : j <= k))

\* the loop at lines 76-80: the candidates from the full name down to its first piece
RECURSIVE BestPrefix(_, _, _)
BestPrefix(name_parts, i, known_modules) ==
    IF i = 0 THEN None
    ELSE LET candidate == Join(SubSeq(name_parts, 1, i))
         IN  IF candidate \in Keys(known_modules) THEN candidate
             ELSE BestPrefix(name_parts, i - 1, known_modules)

RECURSIVE ImportAliases(_, _, _)
ImportAliases(names, known_modules, imp) ==
    IF names = <<>> THEN imp
    ELSE LET name_parts == Split(Head(names))
             best == BestPrefix(name_parts, Len(name_parts), known_modules)
         IN  ImportAliases(Tail(names), known_modules,
                           IF best # None /\ best # EmptyStr THEN imp \cup {best} ELSE imp)

handle_ast_import(n, known_modules, imp) ==
    ImportAliases(n.names, known_modules, imp)

\* lines 52-57
RECURSIVE RelativeWithBase(_, _, _, _)
RelativeWithBase(names, base, known_modules, resolved) ==
    IF names = <<>> THEN resolved
    ELSE LET name   == Head(names)
             submod == IF name # Star THEN base \o name ELSE None
         IN  RelativeWithBase(Tail(names), base, known_modules,
                 IF submod # None /\ submod \in Keys(known_modules)
                 THEN resolved \cup {submod}
                 ELSE IF base \in Keys(known_modules) THEN resolved \cup {base}
                 ELSE resolved)

\* lines 59-62
RECURSIVE RelativeNoBase(_, _, _, _)
RelativeNoBase(names, anchor_parts, known_modules, resolved) ==
    IF names = <<>> THEN resolved
    ELSE LET candidate == Join(anchor_parts \o <<Head(names)>>)
         IN  RelativeNoBase(Tail(names), anchor_parts, known_modules,
                 IF candidate \in Keys(known_modules) THEN resolved \cup {candidate}
                 ELSE resolved)

\* a slice that keeps one segment too many: parts[:-level + 1]
resolve_relative_import_KeepsOneMore(level, module, names, current_module, known_modules) ==
    LET parts == Split(current_module)
    IN  IF Len(parts) < level THEN {}
        ELSE LET anchor_parts == SubSeq(parts, 1, Len(parts) - level + 1)
             IN  IF module # None
                 THEN RelativeWithBase(names, Join(anchor_parts \o Split(module)),
                                       known_modules, {})
                 ELSE RelativeNoBase(names, anchor_parts, known_modules, {})

resolve_relative_import(level, module, names, current_module, known_modules) ==
    LET parts == Split(current_module)
    IN  IF Len(parts) < level THEN {}
        ELSE LET anchor_parts == SubSeq(parts, 1, Len(parts) - level)
             IN  IF module # None
                 THEN RelativeWithBase(names, Join(anchor_parts \o Split(module)),
                                       known_modules, {})
                 ELSE RelativeNoBase(names, anchor_parts, known_modules, {})

\* the loop without its elif branch: a name that is no submodule adds nothing
RECURSIVE AbsoluteFromNoFallback(_, _, _, _)
AbsoluteFromNoFallback(names, module, known_modules, imp) ==
    IF names = <<>> THEN imp
    ELSE LET submod == module \o Head(names)
         IN  AbsoluteFromNoFallback(Tail(names), module, known_modules,
                 IF submod \in Keys(known_modules) THEN imp \cup {submod} ELSE imp)

\* lines 104-109
RECURSIVE AbsoluteFrom(_, _, _, _)
AbsoluteFrom(names, module, known_modules, imp) ==
    IF names = <<>> THEN imp
    ELSE LET submod == module \o Head(names)
         IN  AbsoluteFrom(Tail(names), module, known_modules,
                 IF submod \in Keys(known_modules) THEN imp \cup {submod}
                 ELSE IF module \in Keys(known_modules) THEN imp \cup {module}
                 ELSE imp)

handle_ast_import_from(n, current_module, known_modules, imp) ==
    IF n.level > 0
    THEN imp \cup resolve_relative_import(n.level, n.module, n.names,
                                          current_module, known_modules)
    ELSE IF n.module = None THEN imp
    ELSE AbsoluteFrom(n.names, n.module, known_modules, imp)

\* the loop at lines 130-134
RECURSIVE WalkNodes(_, _, _, _)
WalkNodes(nodes, current_module, known_modules, imp) ==
    IF nodes = <<>> THEN imp
    ELSE WalkNodes(Tail(nodes), current_module, known_modules,
             IF Head(nodes).type = "Import"
             THEN handle_ast_import(Head(nodes), known_modules, imp)
             ELSE handle_ast_import_from(Head(nodes), current_module, known_modules, imp))

\* source.status is what read_text and ast.parse do on the file: they return
\* ("ok", with the import statements of the tree) or raise the named exception.
\* The handlers at lines 120-125 return set() on SyntaxError and on OSError.
Caught == {"SyntaxError", "OSError"}

parse_file_imports(source, filepath, known_modules) ==
    IF source.status \in Caught THEN {}
    ELSE WalkNodes(source.nodes, file_to_module_name(filepath), known_modules, {})

----------------------------------------------------------------------------
(* Source trees and file contents *)

F_root  == << InitPy >>
F_top   == << <<"top", "py">> >>
F_pkg   == << <<"pkg">>, InitPy >>
F_a     == << <<"pkg">>, <<"a", "py">> >>
F_b     == << <<"pkg">>, <<"b", "py">> >>
F_pkgpy == << <<"pkg", "py">> >>
F_deep  == << <<"sub">>, <<"deep", "py">> >>
F_far   == << <<"sub">>, <<"deep">>, <<"mod">>, <<"b", "py">> >>

\* the files the trees of the resolver are made of
FileUniverse == {F_root, F_top, F_pkg, F_a, F_b, F_pkgpy, F_deep, F_far}

TreesOf(universe) == {t \in SUBSET universe : Cardinality(t) \in 1..MaxFiles}

Trees == TreesOf(FileUniverse)

\* the files the trees of analyze are made of
AnalyzeUniverse == {F_root, F_pkg, F_a, F_b, F_pkgpy, F_far}

AnalyzeTrees == TreesOf(AnalyzeUniverse)

SeqsUpTo(S, n) == UNION {[1..k -> S] : k \in 1..n}

ImportNames == {<<"pkg">>, <<"pkg", "a">>, <<"sub", "deep", "mod">>, <<"os">>}
FromModules == {None, <<"pkg">>, <<"deep">>, <<"sub", "deep">>}
FromNames == {<<"a">>, <<"mod">>, Star}
Levels == 0..MaxLevel

\* The nodes the handlers are given: every ast.Import and ast.ImportFrom with
\* these fields.  ast.parse builds only some of them (a wildcard stands alone in
\* its statement, and level 0 comes with a module); the handlers take them all.
ImportNodes == {ImportNode(ns) : ns \in SeqsUpTo(ImportNames, MaxNames)}

ImportFromNodes ==
    {ImportFromNode(l, m, ns) :
        l \in Levels, m \in FromModules, ns \in SeqsUpTo(FromNames, MaxNames)}

Analysed(root) == {f \in root : file_to_module_name(f) # EmptyStr}

----------------------------------------------------------------------------
(* One import statement of a file: the handler called by parse_file_imports *)

\* imported when the statement is reached: nothing yet, or what an earlier
\* "import m" of the file has added
EarlierImported(known_modules) == {{}} \cup {{m} : m \in Keys(known_modules)}

InitR ==
    /\ tree \in Trees
    /\ known = build_module_registry(tree)
    /\ cur \in Analysed(tree)
    /\ pc = "parse"
    /\ node = NoNode
    /\ imported \in EarlierImported(known)
    /\ prev = imported
    /\ files = <<>>
    /\ idx = 0
    /\ importers = <<>>
    /\ parsed = <<>>
    /\ results = <<>>
    /\ view = <<>>

VisitImport ==
    /\ pc = "parse"
    /\ \E n \in ImportNodes :
        /\ node' = n
        /\ prev' = imported
        /\ imported' = handle_ast_import(n, known, imported)
    /\ pc' = "visited"
    /\ UNCHANGED <<tree, known, files, cur, idx, importers, parsed, results, view>>

VisitImportFrom ==
    /\ pc = "parse"
    /\ \E n \in ImportFromNodes :
        /\ node' = n
        /\ prev' = imported
        /\ imported' = handle_ast_import_from(n, file_to_module_name(cur), known, imported)
    /\ pc' = "visited"
    /\ UNCHANGED <<tree, known, files, cur, idx, importers, parsed, results, view>>

NextR == VisitImport \/ VisitImportFrom

SpecR == InitR /\ [][NextR]_vars


----------------------------------------------------------------------------
(* analyze *)

\* an index that starts with no key at all
InitImportersNoKeys(known_modules) == [mod \in {} |-> {}]

\* line 141
InitImporters(known_modules) == [mod \in Keys(known_modules) |-> {}]

\* lines 149-153 without the test at line 150
AddImportersKeepsSelf(imps, current_module, rel_path, imp) ==
    [mod \in DOMAIN imps |-> IF mod \in imp THEN imps[mod] \cup {rel_path} ELSE imps[mod]]

\* lines 149-153 with an assignment in place of the add
AddImportersOverwrites(imps, current_module, rel_path, imp) ==
    [mod \in DOMAIN imps |->
        IF mod \in imp /\ mod # current_module THEN {rel_path} ELSE imps[mod]]

\* lines 149-153
AddImporters(imps, current_module, rel_path, imp) ==
    [mod \in DOMAIN imps |->
        IF mod \in imp /\ mod # current_module THEN imps[mod] \cup {rel_path}
        ELSE imps[mod]]

\* len(rel.parts), without the - 1
MetricsRowDepthOffByOne(mod, filepath, imps) ==
    [module       |-> mod,
     rel_path     |-> filepath,
     depth        |-> Len(filepath),
     import_count |-> Cardinality(imps[mod]),
     importers    |-> SortRelPaths(imps[mod]),
     score        |-> Len(filepath) * Cardinality(imps[mod])]

\* lines 157-168
MetricsRow(mod, filepath, imps) ==
    [module       |-> mod,
     rel_path     |-> filepath,
     depth        |-> compute_depth(filepath),
     import_count |-> Cardinality(imps[mod]),
     importers    |-> SortRelPaths(imps[mod]),
     score        |-> compute_depth(filepath) * Cardinality(imps[mod])]

\* the import statements the files of the model are written with
SrcNodes ==
    { ImportNode(<< <<"pkg", "a">>, <<"os">> >>),
      ImportNode(<< <<"sub", "deep", "mod", "b">> >>),
      ImportFromNode(1, None, << <<"a">> >>) }

Parsable ==
    {[status |-> "ok", nodes |-> ns] : ns \in {<<>>} \cup SeqsUpTo(SrcNodes, MaxStmts)}

\* a file that cannot be read, or whose text is no valid source
Rejected == {[status |-> e, nodes |-> <<>>] : e \in Caught}

\* a file on which ast.parse raises an exception that line 120 and line 123 do
\* not name (RecursionError or MemoryError on deeply nested source)
Overflowing == {[status |-> "RecursionError", nodes |-> <<>>]}

Pending == [state |-> "pending", deps |-> {}]

Init ==
    /\ tree \in AnalyzeTrees
    /\ pc = "start"
    /\ known = <<>>
    /\ files = <<>>
    /\ idx = 1
    /\ importers = <<>>
    /\ parsed = [f \in tree |-> Pending]
    /\ results = <<>>
    /\ view = [cmd |-> "none", min_imports |-> 0, min_depth |-> 0, max_imports |-> 0,
               top |-> 0, rows |-> <<>>]
    /\ cur = <<>>
    /\ node = NoNode
    /\ prev = {}
    /\ imported = {}

\* lines 140-141
BuildRegistry ==
    /\ pc = "start"
    /\ known' = build_module_registry(tree)
    /\ importers' = InitImporters(known')
    /\ files' = collect_python_files(tree)
    /\ pc' = "scan"
    /\ UNCHANGED <<tree, idx, parsed, results, view, cur, node, prev, imported>>

\* lines 143-146: the file of the root package is passed over
SkipRootPackage ==
    /\ pc = "scan"
    /\ idx <= Len(files)
    /\ file_to_module_name(files[idx]) = EmptyStr
    /\ parsed' = [parsed EXCEPT ![files[idx]] = [state |-> "skipped", deps |-> {}]]
    /\ idx' = idx + 1
    /\ UNCHANGED <<tree, pc, known, files, importers, results, view, cur, node, prev, imported>>

\* lines 143-153: one file of the loop
AnalyzeFile ==
    /\ pc = "scan"
    /\ idx <= Len(files)
    /\ file_to_module_name(files[idx]) # EmptyStr
    /\ \E source \in Parsable \cup Rejected :
        LET filepath == files[idx]
            imp == parse_file_imports(source, filepath, known)
        IN  /\ importers' = AddImporters(importers, file_to_module_name(filepath),
                                         filepath, imp)
            /\ parsed' = [parsed EXCEPT ![filepath] =
                             [state |-> IF source.status = "ok" THEN "ok" ELSE "failed",
                              deps  |-> imp]]
    /\ idx' = idx + 1
    /\ UNCHANGED <<tree, pc, known, files, results, view, cur, node, prev, imported>>

\* lines 148, 117-125: the exception leaves parse_file_imports and analyze
AnalyzeFileRaises ==
    /\ pc = "scan"
    /\ idx <= Len(files)
    /\ file_to_module_name(files[idx]) # EmptyStr
    /\ \E source \in Overflowing :
        parsed' = [parsed EXCEPT ![files[idx]] = [state |-> "raised", deps |-> {}]]
    /\ pc' = "aborted"
    /\ UNCHANGED <<tree, known, files, idx, importers, results, view, cur, node, prev, imported>>

\* lines 155-170
ComputeMetrics ==
    /\ pc = "scan"
    /\ idx > Len(files)
    /\ results' = [i \in 1..Len(known) |-> MetricsRow(known[i][1], known[i][2], importers)]
    /\ pc' = "done"
    /\ UNCHANGED <<tree, known, files, idx, importers, parsed, view, cur, node, prev, imported>>


----------------------------------------------------------------------------
(* The views *)

\* a sort key: a tuple of numbers followed by the module name
RECURSIVE NumsLess(_, _)
NumsLess(a, b) ==
    IF a = <<>> THEN FALSE
    ELSE IF a[1] = b[1] THEN NumsLess(Tail(a), Tail(b))
    ELSE a[1] < b[1]

KeyLess(k1, k2) ==
    \/ NumsLess(k1.nums, k2.nums)
    \/ k1.nums = k2.nums /\ StrLess(k1.name, k2.name)

\* list.sort(key = ...): a stable sort, by insertion
RECURSIVE InsertKeyed(_, _)
InsertKeyed(sorted, e) ==
    IF sorted = <<>> THEN <<e>>
    ELSE IF KeyLess(e.key, Head(sorted).key) THEN <<e>> \o sorted
    ELSE <<Head(sorted)>> \o InsertKeyed(Tail(sorted), e)

RECURSIVE SortKeyed(_)
SortKeyed(s) ==
    IF s = <<>> THEN <<>> ELSE InsertKeyed(SortKeyed(Front(s)), s[Len(s)])

RowsOf(s) == [i \in 1..Len(s) |-> s[i].row]

\* s[:top]
Slice(s, top) ==
    IF top >= 0 THEN SubSeq(s, 1, IF top < Len(s) THEN top ELSE Len(s))
    ELSE SubSeq(s, 1, IF Len(s) + top > 0 THEN Len(s) + top ELSE 0)

\* the key at line 272
HotKey(r) == [nums |-> <<0 - r.score, 0 - r.import_count>>, name |-> r.module]

\* the key at line 280
DeadKey(r) == [nums |-> <<0 - r.depth>>, name |-> r.module]

\* the key at line 292
ColdKey(r) == [nums |-> <<r.import_count, 0 - r.depth>>, name |-> r.module]

\* lines 268-273: the rows handed to format_hot_results
cmd_hot(res, min_imports, min_depth, top) ==
    LET filtered == SelectSeq(res, LAMBDA r :
                        r.import_count >= min_imports /\ r.depth >= min_depth)
        keyed == [i \in 1..Len(filtered) |-> [key |-> HotKey(filtered[i]), row |-> filtered[i]]]
    IN  Slice(RowsOf(SortKeyed(keyed)), top)

\* a filter that lets a module with one importer through
cmd_dead_AtMostOne(res, top) ==
    LET dead == SelectSeq(res, LAMBDA r : r.import_count <= 1)
        keyed == [i \in 1..Len(dead) |-> [key |-> DeadKey(dead[i]), row |-> dead[i]]]
    IN  Slice(RowsOf(SortKeyed(keyed)), top)

\* lines 279-281: the rows handed to format_dead_results
cmd_dead(res, top) ==
    LET dead == SelectSeq(res, LAMBDA r : r.import_count = 0)
        keyed == [i \in 1..Len(dead) |-> [key |-> DeadKey(dead[i]), row |-> dead[i]]]
    IN  Slice(RowsOf(SortKeyed(keyed)), top)

\* lines 287-293: the rows handed to format_cold_results
cmd_cold(res, max_imports, min_depth, top) ==
    LET cold == SelectSeq(res, LAMBDA r :
                    1 <= r.import_count /\ r.import_count <= max_imports
                    /\ r.depth >= min_depth)
        keyed == [i \in 1..Len(cold) |-> [key |-> ColdKey(cold[i]), row |-> cold[i]]]
    IN  Slice(RowsOf(SortKeyed(keyed)), top)

\* the arguments the commands are run with
DefaultMaxImports == 3
Tops == -1..MaxTop
MinImportsArgs == {1, 2}
MinDepthArgs == {0, 1}
MaxImportsArgs == {1, DefaultMaxImports}

CmdHot ==
    /\ pc = "done"
    /\ \E mi \in MinImportsArgs, md \in MinDepthArgs, top \in Tops :
        view' = [cmd |-> "hot", min_imports |-> mi, min_depth |-> md, max_imports |-> 0,
                 top |-> top, rows |-> cmd_hot(results, mi, md, top)]
    /\ pc' = "shown"
    /\ UNCHANGED <<tree, known, files, idx, importers, parsed, results, cur, node, prev, imported>>

CmdDead ==
    /\ pc = "done"
    /\ \E top \in Tops :
        view' = [cmd |-> "dead", min_imports |-> 0, min_depth |-> 0, max_imports |-> 0,
                 top |-> top, rows |-> cmd_dead(results, top)]
    /\ pc' = "shown"
    /\ UNCHANGED <<tree, known, files, idx, importers, parsed, results, cur, node, prev, imported>>

CmdCold ==
    /\ pc = "done"
    /\ \E mx \in MaxImportsArgs, md \in MinDepthArgs, top \in Tops :
        view' = [cmd |-> "cold", min_imports |-> 0, min_depth |-> md, max_imports |-> mx,
                 top |-> top, rows |-> cmd_cold(results, mx, md, top)]
    /\ pc' = "shown"
    /\ UNCHANGED <<tree, known, files, idx, importers, parsed, results, cur, node, prev, imported>>

Next ==
    \/ BuildRegistry
    \/ SkipRootPackage
    \/ AnalyzeFile
    \/ AnalyzeFileRaises
    \/ ComputeMetrics
    \/ CmdHot
    \/ CmdDead
    \/ CmdCold

Spec == Init /\ [][Next]_vars


----------------------------------------------------------------------------
(* Properties of analyze and of the views, under Spec *)

Finished == pc \in {"done", "shown"}

RowSet == Range(results)

OwnFile(mod) == Get(known, mod)

\* the files whose resolved dependency set contains mod
Dependents(mod) == {f \in tree : mod \in parsed[f].deps}

\* C1 as stated: the importer count of m is the number of files other than m's
\* own file whose resolved dependency set contains m, and m's own file is
\* never among m's importers.
C1_CountsOtherFiles ==
    Finished =>
        \A r \in RowSet :
            /\ r.import_count = Cardinality(Dependents(r.module) \ {OwnFile(r.module)})
            /\ OwnFile(r.module) \notin Range(r.importers)

\* C1 as amended: the importer count of m is the number of files whose own
\* module name is not m (and is not empty) and whose resolved dependency set
\* contains m; the importer list holds exactly those files, m's own file never.
C1_CountsFilesOfOtherModules ==
    Finished =>
        \A r \in RowSet :
            LET others == {f \in Dependents(r.module) :
                              /\ file_to_module_name(f) # EmptyStr
                              /\ file_to_module_name(f) # r.module}
            IN  /\ r.import_count = Cardinality(others)
                /\ Range(r.importers) = others
                /\ OwnFile(r.module) \notin Range(r.importers)

\* a file imports the module it is named after, another file imports a module
C1_Witness ==
    /\ Finished
    /\ \E f \in tree : file_to_module_name(f) \in parsed[f].deps
    /\ \E r \in RowSet : r.import_count >= 1

\* C5 as stated: a module is in the dead view iff its importer count is 0, in
\* the cold view iff its count is between 1 and max, and in at most one of them.
ModulesOf(rows) == {rows[i].module : i \in 1..Len(rows)}

ColdRuns == {cmd_cold(results, mx, md, top) :
                mx \in MaxImportsArgs, md \in MinDepthArgs, top \in Tops}

C5_ViewsPartitionByCount ==
    /\ view.cmd = "dead" =>
           /\ \A r \in RowSet : r.module \in ModulesOf(view.rows) <=> r.import_count = 0
           /\ \A rows \in ColdRuns : ModulesOf(view.rows) \cap ModulesOf(rows) = {}
    /\ view.cmd = "cold" =>
           \A r \in RowSet :
               r.module \in ModulesOf(view.rows) <=>
                   (1 <= r.import_count /\ r.import_count <= view.max_imports)

\* C5 as amended: every module of the dead view has importer count 0 and every
\* module of the cold view has a count between 1 and max and a depth of at least
\* min-depth; a view that top-N does not cut short holds every such module; no
\* module is in both views.
C5_ViewsFilterByCount ==
    /\ view.cmd = "dead" =>
           LET Q == {r \in RowSet : r.import_count = 0}
           IN  /\ Range(view.rows) \subseteq Q
               /\ Cardinality(Q) <= view.top => Range(view.rows) = Q
               /\ \A rows \in ColdRuns : ModulesOf(view.rows) \cap ModulesOf(rows) = {}
    /\ view.cmd = "cold" =>
           LET Q == {r \in RowSet : /\ 1 <= r.import_count
                                    /\ r.import_count <= view.max_imports
                                    /\ r.depth >= view.min_depth}
           IN  /\ Range(view.rows) \subseteq Q
               /\ Cardinality(Q) <= view.top => Range(view.rows) = Q

\* a dead view that is not cut short, of a table that also has a cold module
C5_Witness ==
    /\ view.cmd = "dead"
    /\ Len(view.rows) >= 1
    /\ Len(view.rows) <= view.top
    /\ \E r \in RowSet : r.import_count = 1

\* C6: a file that is unreadable or fails to parse does not stop the analysis,
\* adds no importer entry, keeps its registry slot and its metrics row, can
\* still be a dependency target, and leaves the importer sets what the other
\* files make them.
Failing == {f \in tree : parsed[f].state \in {"failed", "raised"}}

C6_ParseFailureTolerated ==
    /\ pc # "aborted"
    /\ Finished =>
           /\ \A f \in Failing :
                  /\ \A mod \in DOMAIN importers : f \notin importers[mod]
                  /\ file_to_module_name(f) \in Keys(known)
                  /\ \E r \in RowSet : r.module = file_to_module_name(f)
           /\ \A mod \in DOMAIN importers :
                  importers[mod] = {f \in Dependents(mod) \ Failing :
                                       /\ parsed[f].state = "ok"
                                       /\ file_to_module_name(f) # mod}

\* C7: the importer index does not depend on the order in which the files are
\* aggregated, and each row lists its importers in ascending order.
RECURSIVE AggregateIn(_, _)
AggregateIn(order, imps) ==
    IF order = <<>> THEN imps
    ELSE AggregateIn(Tail(order),
                     AddImporters(imps, file_to_module_name(Head(order)), Head(order),
                                  parsed[Head(order)].deps))

Orders(S) ==
    {o \in [1..Cardinality(S) -> S] : \A i, j \in DOMAIN o : i # j => o[i] # o[j]}

C7_OrderIndependent ==
    pc = "done" =>
        /\ \A o \in Orders(Analysed(tree)) :
               AggregateIn(o, InitImporters(known)) = importers
        /\ \A r \in RowSet :
               /\ Range(r.importers) = importers[r.module]
               /\ \A i, j \in DOMAIN r.importers :
                      i < j => RelPathLess(r.importers[i], r.importers[j])

\* two files import the same module
C7_Witness ==
    /\ pc = "done"
    /\ \E r \in RowSet : r.import_count >= 2

\* C8: at every step of the aggregation and in the result the keys of the
\* importer index are the known modules, every registry module has exactly one
\* metrics row, and no module has its own file among its importers.
C8_IndexInvariant ==
    /\ pc # "start" =>
           /\ DOMAIN importers = Keys(known)
           /\ Keys(known) = {file_to_module_name(f) : f \in tree} \ {EmptyStr}
           /\ \A mod \in DOMAIN importers : OwnFile(mod) \notin importers[mod]
    /\ Finished =>
           /\ \A mod \in Keys(known) :
                  Cardinality({i \in DOMAIN results : results[i].module = mod}) = 1
           /\ \A i \in DOMAIN results :
                  /\ results[i].module \in Keys(known)
                  /\ results[i].rel_path \notin Range(results[i].importers)

\* the table of a tree with a module nobody imports and one somebody imports
C8_Witness ==
    /\ Finished
    /\ \E r \in RowSet : r.import_count = 0
    /\ \E r \in RowSet : r.import_count >= 1

\* C9: in every row score = depth * importer count, both factors are >= 0, a
\* file in the root has depth 0 and a file one directory down has depth 1.
C9_ScoreAndDepth ==
    Finished =>
        \A r \in RowSet :
            /\ r.score = r.depth * r.import_count
            /\ r.depth >= 0
            /\ r.import_count >= 0
            /\ Len(r.rel_path) = 1 => r.depth = 0
            /\ Len(r.rel_path) = 2 => r.depth = 1

\* a module one directory down that has an importer
C9_Witness ==
    /\ Finished
    /\ \E r \in RowSet : r.depth = 1 /\ r.import_count >= 1 /\ r.score >= 1

\* C10: the hot view is the first top-N modules with importer count >=
\* min-imports and depth >= min-depth, by score descending, then importer count
\* descending, then module name ascending; the dead view is the first top-N
\* modules with no importer, by depth descending, then module name ascending.
HotBefore(r1, r2) ==
    \/ r1.score > r2.score
    \/ r1.score = r2.score /\ r1.import_count > r2.import_count
    \/ r1.score = r2.score /\ r1.import_count = r2.import_count
       /\ StrLess(r1.module, r2.module)

DeadBefore(r1, r2) ==
    \/ r1.depth > r2.depth
    \/ r1.depth = r2.depth /\ StrLess(r1.module, r2.module)

\* how many elements "the first n of a list of k" has
FirstCount(n, k) == IF n < 0 THEN 0 ELSE IF n < k THEN n ELSE k

C10_HotAndDeadOrder ==
    /\ view.cmd = "hot" =>
           LET Q == {r \in RowSet : /\ r.import_count >= view.min_imports
                                    /\ r.depth >= view.min_depth}
           IN  /\ Len(view.rows) = FirstCount(view.top, Cardinality(Q))
               /\ Range(view.rows) \subseteq Q
               /\ \A i, j \in DOMAIN view.rows :
                      i < j => HotBefore(view.rows[i], view.rows[j])
               /\ \A r \in Q \ Range(view.rows) :
                      \A i \in DOMAIN view.rows : HotBefore(view.rows[i], r)
    /\ view.cmd = "dead" =>
           LET Q == {r \in RowSet : r.import_count = 0}
           IN  /\ Len(view.rows) = FirstCount(view.top, Cardinality(Q))
               /\ Range(view.rows) \subseteq Q
               /\ \A i, j \in DOMAIN view.rows :
                      i < j => DeadBefore(view.rows[i], view.rows[j])
               /\ \A r \in Q \ Range(view.rows) :
                      \A i \in DOMAIN view.rows : DeadBefore(view.rows[i], r)

----------------------------------------------------------------------------
(* Properties of the resolver, under SpecR *)

IsPrefix(p, s) == Len(p) <= Len(s) /\ SubSeq(s, 1, Len(p)) = p

\* the known modules that are a prefix of name and no shorter than any other such prefix
LongestKnownPrefix(name, K) ==
    {p \in K : IsPrefix(p, name) /\ \A q \in K : IsPrefix(q, name) => Len(q) <= Len(p)}

CurName == file_to_module_name(cur)

\* C2: a direct import adds, for each dotted name n1.n2...nk, exactly the longest
\* prefix n1...ni that is a known module, and nothing when no prefix is known.
C2_DirectImportLongestPrefix ==
    (pc = "visited" /\ node.type = "Import") =>
        imported = prev \cup UNION {LongestKnownPrefix(node.names[i], Keys(known)) :
                                       i \in DOMAIN node.names}

\* Scenario B: sub.deep.mod is imported where sub.deep is known and sub.deep.mod is not
C2_Witness ==
    /\ pc = "visited"
    /\ node.type = "Import"
    /\ \E i \in DOMAIN node.names : node.names[i] = <<"sub", "deep", "mod">>
    /\ <<"sub", "deep">> \in Keys(known)
    /\ <<"sub", "deep", "mod">> \notin Keys(known)
    /\ <<"sub", "deep">> \in imported \ prev

\* C3: a relative import in a module of s segments resolves to nothing when
\* s < level; otherwise, with no base, to exactly the known modules among the
\* candidates anchor + name, the anchor being the first s - level segments.
C3_RelativeImportAnchor ==
    (pc = "visited" /\ node.type = "ImportFrom" /\ node.level >= 1) =>
        LET s == Len(CurName)
        IN  /\ s < node.level => imported = prev
            /\ (s >= node.level /\ node.module = None) =>
                   imported = prev \cup
                       ({SubSeq(CurName, 1, s - node.level) \o node.names[i] :
                             i \in DOMAIN node.names} \cap Keys(known))

\* Scenario A: pkg.b imports name a at level 1 with no base
C3_Witness ==
    /\ pc = "visited"
    /\ CurName = <<"pkg", "b">>
    /\ node.type = "ImportFrom" /\ node.level = 1 /\ node.module = None
    /\ \E i \in DOMAIN node.names : node.names[i] = <<"a">>
    /\ <<"pkg", "a">> \in imported \ prev

\* what one imported name adds under base path B
NameAdds(B, name, K) ==
    IF name # Star /\ (B \o name) \in K THEN {B \o name}
    ELSE IF B \in K THEN {B}
    ELSE {}

\* C4: under a base path B (the base when level = 0, anchor + base when
\* level >= 1) each name adds B.name if that is a known module, else B if B is
\* known, else nothing; a wildcard adds only B; an absolute import with no base
\* adds nothing.
C4_FromImportBaseFallback ==
    (pc = "visited" /\ node.type = "ImportFrom") =>
        LET s == Len(CurName)
            B == IF node.level = 0 THEN node.module
                 ELSE SubSeq(CurName, 1, s - node.level) \o node.module
        IN  /\ (node.level = 0 /\ node.module = None) => imported = prev
            /\ (node.module # None /\ s >= node.level) =>
                   imported = prev \cup UNION {NameAdds(B, node.names[i], Keys(known)) :
                                                  i \in DOMAIN node.names}

\* Scenario E: from pkg import * where pkg is known
C4_Witness ==
    /\ pc = "visited"
    /\ node.type = "ImportFrom" /\ node.level = 0 /\ node.module = <<"pkg">>
    /\ node.names = <<Star>>
    /\ <<"pkg">> \in Keys(known)
    /\ imported \ prev = {<<"pkg">>}

====
